---------------------------- MODULE Spec2Model ----------------------------
(***************************************************************************)
(* Booking and settlement core of app.py: book_appointment and             *)
(* process_payment running as concurrent request handlers against the      *)
(* shared Firestore collections timeSlots, doctors, appointments,          *)
(* patients and transactions.  Every store call of a handler is one        *)
(* atomic step; the handler's local computation up to its next store call  *)
(* belongs to the same step.  A store call may raise, and a handler may    *)
(* die between two store calls.                                            *)
(***************************************************************************)
EXTENDS Integers, Sequences, FiniteSets, TLC

\* ------------------------------------------------------------------ bounds
MaxCalls == 2
InitBalance == 1

\* ------------------------------------------------------- program constants
DefaultFee == 100
OtpLen == 6
PrefixLen == 6

\* What a booking intent may lack: nothing, one of its keys, or a startTime
\* that is no HH:MM time (parse_appointment_details then sets no endTime).
IntentGaps == {"none", "doctorId", "date", "startTime", "unparsedTime", "type",
               "endTime", "reason"}

\* the two request workers whose handlers interleave
Procs == {"w1", "w2"}

\* ------------------------------------------------------------ store content
\* A slot identity is (doctorId, date/startTime).
SlotKeys == {<<"D1", "09:00">>, <<"D2", "09:00">>, <<"D1", "10:00">>}
\* timeSlots documents exist for these identities and for EarlierSlot only.
SlotDocs == {<<"D1", "09:00">>, <<"D2", "09:00">>}
\* the slot of a booking made before the first modelled call
EarlierSlot == <<"D1", "08:00">>
\* doctors documents: D2 has time slots but no doctor document.
DoctorDocs == {"D1"}
ApptTypes == {"in-person", "telemedicine"}
\* consultationFees of each doctor document: D1 sets inPerson only.
ConsultationFees == [D1 |-> [inPerson |-> 2]]

PatientIds == {"A", "B"}
Emails == {"a@x", "b@x", "nobody@x"}
\* patients documents by their email field.
PatientDocByEmail == [e \in {"a@x", "b@x"} |-> IF e = "a@x" THEN "A" ELSE "B"]

Amounts == {1, 2}

\* dates as (year, month, day); every modelled slot is on ApptDate, and a
\* booking is made on that day or on an earlier one
ApptDate == <<2024, 6, 1>>
Days == {<<2024, 5, 30>>, <<2024, 6, 1>>}
\* the amounts a request body may carry
AmountInputs == {-1, 0, 1, 2}

\* otp strings as sequences of characters; 0..9 are the digits, 10 is a letter.
NoOtp == <<>>
IssuableOtps == {<<1, 2, 3, 4, 5, 6>>, <<6, 5, 4, 3, 2, 1>>}
OtpInputs == IssuableOtps \cup {<<1, 2>>, <<1, 2, 3, 4, 5, 10>>}

VARIABLES
    slots,          \* timeSlots: identity -> isBooked
    appointments,   \* appointments collection; a document's id is its index
    issued,         \* the otp each booking returned, by appointment id
    balance,        \* patients: id -> balance
    transactions,   \* transactions collection; a document's id is its index
    pc,             \* each handler's position
    call,           \* each handler's arguments
    loc,            \* each handler's local variables
    result,         \* each handler's returned value
    calls           \* number of calls started

vars == <<slots, appointments, issued, balance, transactions, pc, call, loc,
          result, calls>>

NoCall == [op |-> "none", slot |-> <<"", "">>, patientId |-> "",
           type |-> "", missing |-> "none",
           email |-> "", amount |-> 0, appt |-> 0, otp |-> NoOtp]

NoLoc == [cost |-> 0, apptId |-> 0, patientId |-> "", current_balance |-> 0,
          new_balance |-> 0, txId |-> 0,
          \* history of the call, not read by the handler:
          freeAtStart |-> FALSE, fault |-> FALSE, wrote |-> FALSE,
          debited |-> FALSE, balBefore |-> 0, balAtStart |-> 0, apptAtStart |-> ""]

NoConf == <<>>
NoResult == [kind |-> "none", otp |-> NoOtp, conf |-> NoConf]

\* the appointment document book_appointment builds
AppointmentDoc(slot, patientId, type, cost) ==
    [slot |-> slot, patientId |-> patientId, type |-> type, cost |-> cost,
     status |-> "pending_payment", isPaid |-> FALSE, transactionId |-> 0]

\* doctor['consultationFees'].get('inPerson' if type == 'in-person' else
\* 'telemedicine', '100')
Cost(doctorId, type) ==
    LET fees == ConsultationFees[doctorId]
        key == IF type = "in-person" THEN "inPerson" ELSE "telemedicine"
    IN  IF key \in DOMAIN fees THEN fees[key] ELSE DefaultFee

\* The store after one earlier, successful book_appointment call by patient A
\* for EarlierSlot: its appointment awaits payment, its slot is booked, its
\* otp was returned.  Every other slot is free and no payment has been made.
Init ==
    /\ slots = [k \in SlotDocs \cup {EarlierSlot} |-> k = EarlierSlot]
    /\ appointments = <<AppointmentDoc(EarlierSlot, "A", "in-person",
                                       Cost("D1", "in-person"))>>
    /\ issued = << <<1, 2, 3, 4, 5, 6>> >>
    /\ balance = [p \in PatientIds |-> InitBalance]
    /\ transactions = <<>>
    /\ pc = [p \in Procs |-> "idle"]
    /\ call = [p \in Procs |-> NoCall]
    /\ loc = [p \in Procs |-> NoLoc]
    /\ result = [p \in Procs |-> NoResult]
    /\ calls = 0

\* ----------------------------------------------------------------- helpers
\* the handler returns `kind`
Finish(p, kind, otp) ==
    /\ pc' = [pc EXCEPT ![p] = "done"]
    /\ result' = [result EXCEPT ![p] = [kind |-> kind, otp |-> otp, conf |-> NoConf]]

\* check_doctor_availability's query: a timeSlots document with this
\* identity and isBooked == False exists
SlotFree(k) == k \in DOMAIN slots /\ slots[k] = FALSE

\* not (not otp or len(otp) != 6 or not otp.isdigit())
OtpWellFormed(otp) ==
    /\ otp # <<>>
    /\ Len(otp) = OtpLen
    /\ \A i \in 1..Len(otp) : otp[i] \in 0..9

\* the balance check left out
SufficientFundsUnchecked(current_balance, amount) == TRUE

\* the balance check with its operands exchanged
SufficientFundsSwapped(current_balance, amount) == ~(amount < current_balance)

\* not (current_balance < amount)
SufficientFunds(current_balance, amount) == ~(current_balance < amount)

\* new_balance = current_balance - amount
NewBalance(current_balance, amount) == current_balance - amount

\* -------------------------------------------------------- book_appointment
\* appointment_details['doctorId'], ['date'], ['startTime'] evaluate
KeysPresent(m) == m \notin {"doctorId", "date", "startTime"}

\* datetime.strptime(f"{date} {time}", "%Y-%m-%d %H:%M") succeeds
TimeParses(m) == m # "unparsedTime"

\* only appointment_details['type'] is subscripted, the others read with .get
DataPresentLenient(m) == m # "type"

\* appointment_details['type'], ['endTime'], ['reason'] evaluate
DataPresent(m) == m \notin {"type", "endTime", "reason", "unparsedTime"}

\* the call with intent (k, t) lacking m, up to its first store call: a key
\* error raises into the except branch, a strptime error is caught inside
\* check_doctor_availability, which answers False
BookCall(p, k, pid, t, m) ==
    /\ pc[p] = "idle"
    /\ calls < MaxCalls
    /\ call' = [call EXCEPT ![p] = [NoCall EXCEPT !.op = "book", !.slot = k,
                    !.patientId = pid, !.type = t, !.missing = m]]
    /\ loc' = [loc EXCEPT ![p] = [NoLoc EXCEPT !.freeAtStart = SlotFree(k)]]
    /\ IF ~KeysPresent(m) THEN Finish(p, "BookingFailed", NoOtp)
       ELSE IF ~TimeParses(m) THEN Finish(p, "SlotUnavailable", NoOtp)
       ELSE /\ pc' = [pc EXCEPT ![p] = "b_check"]
            /\ result' = [result EXCEPT ![p] = NoResult]
    /\ calls' = calls + 1
    /\ UNCHANGED <<slots, appointments, issued, balance, transactions>>

\* book_appointment called with a complete intent
StartBook(p) ==
    \E k \in SlotKeys, pid \in PatientIds, t \in ApptTypes :
        BookCall(p, k, pid, t, "none")

\* book_appointment called with whatever parse_appointment_details extracted
StartBookIntent(p) ==
    \E k \in SlotKeys, pid \in PatientIds, t \in ApptTypes, m \in IntentGaps :
        BookCall(p, k, pid, t, m)

\* check_doctor_availability: a failed query is caught and answers False
BCheck(p) ==
    /\ pc[p] = "b_check"
    /\ \E ok \in BOOLEAN :
          IF ok /\ SlotFree(call[p].slot)
          THEN /\ pc' = [pc EXCEPT ![p] = "b_doctor"]
               /\ UNCHANGED <<result, loc>>
          ELSE /\ Finish(p, "SlotUnavailable", NoOtp)
               /\ loc' = [loc EXCEPT ![p].fault = ~ok]
    /\ UNCHANGED <<slots, appointments, issued, balance, transactions, call, calls>>

\* doctor_ref.get().to_dict(), then the cost and appointment_data
BDoctor(p) ==
    /\ pc[p] = "b_doctor"
    /\ \E ok \in BOOLEAN :
          IF ~ok
          THEN /\ Finish(p, "BookingFailed", NoOtp)
               /\ loc' = [loc EXCEPT ![p].fault = TRUE]
          ELSE IF call[p].slot[1] \notin DoctorDocs
          THEN /\ Finish(p, "DoctorNotFound", NoOtp)
               /\ UNCHANGED loc
          ELSE IF ~DataPresent(call[p].missing)
          THEN /\ Finish(p, "BookingFailed", NoOtp)
               /\ UNCHANGED loc
          ELSE /\ pc' = [pc EXCEPT ![p] = "b_add"]
               /\ loc' = [loc EXCEPT ![p].cost = Cost(call[p].slot[1], call[p].type)]
               /\ UNCHANGED result
    /\ UNCHANGED <<slots, appointments, issued, balance, transactions, call, calls>>

\* appointment_data of this call
AppointmentData(p) ==
    AppointmentDoc(call[p].slot, call[p].patientId, call[p].type, loc[p].cost)

\* db.collection('appointments').add(appointment_data)
BAdd(p) ==
    /\ pc[p] = "b_add"
    /\ \E ok \in BOOLEAN :
          IF ~ok
          THEN /\ Finish(p, "BookingFailed", NoOtp)
               /\ loc' = [loc EXCEPT ![p].fault = TRUE]
               /\ UNCHANGED <<appointments, issued>>
          ELSE /\ appointments' = Append(appointments, AppointmentData(p))
               /\ issued' = Append(issued, NoOtp)
               /\ loc' = [loc EXCEPT ![p].apptId = Len(appointments) + 1,
                                     ![p].wrote = TRUE]
               /\ pc' = [pc EXCEPT ![p] = "b_query"]
               /\ UNCHANGED result
    /\ UNCHANGED <<slots, balance, transactions, call, calls>>

\* the second timeSlots query, by identity only
BQuery(p) ==
    /\ pc[p] = "b_query"
    /\ \E ok \in BOOLEAN :
          IF ~ok
          THEN /\ Finish(p, "BookingFailed", NoOtp)
               /\ loc' = [loc EXCEPT ![p].fault = TRUE]
          ELSE /\ pc' = [pc EXCEPT ![p] =
                     IF call[p].slot \in DOMAIN slots THEN "b_update" ELSE "b_return"]
               /\ UNCHANGED <<result, loc>>
    /\ UNCHANGED <<slots, appointments, issued, balance, transactions, call, calls>>

\* the update writing the negation of the stored isBooked
MarkBookedToggle(s, k) == [s EXCEPT ![k] = ~s[k]]

\* timeSlots after document(slot.id).update({'isBooked': True})
MarkBooked(s, k) == [s EXCEPT ![k] = TRUE]

\* document(slot.id).update({'isBooked': True})
BUpdate(p) ==
    /\ pc[p] = "b_update"
    /\ \E ok \in BOOLEAN :
          IF ~ok
          THEN /\ Finish(p, "BookingFailed", NoOtp)
               /\ loc' = [loc EXCEPT ![p].fault = TRUE]
               /\ UNCHANGED slots
          ELSE /\ slots' = MarkBooked(slots, call[p].slot)
               /\ pc' = [pc EXCEPT ![p] = "b_return"]
               /\ UNCHANGED <<result, loc>>
    /\ UNCHANGED <<appointments, issued, balance, transactions, call, calls>>

\* the id the store gave document i of a collection, as a character string
DocId(i) == <<i, 0, i, 1, i, 2, i, 3>>

\* strftime('%Y%m%d')
Yyyymmdd(d) == d[1] * 10000 + d[2] * 100 + d[3]

\* f"APT-{datetime.now().strftime('%Y%m%d')}-{appointment_ref[1].id[:6]}",
\* on the day `today`
ConfirmationNumber(today, id) == <<Yyyymmdd(today), SubSeq(DocId(id), 1, PrefixLen)>>

\* otp = str(random.randint(100000, 999999)) and the successful return, on
\* whatever day the call runs
BReturn(p) ==
    /\ pc[p] = "b_return"
    /\ \E o \in IssuableOtps, today \in Days :
          /\ pc' = [pc EXCEPT ![p] = "done"]
          /\ result' = [result EXCEPT ![p] = [kind |-> "Success", otp |-> o,
                            conf |-> ConfirmationNumber(today, loc[p].apptId)]]
          /\ issued' = [issued EXCEPT ![loc[p].apptId] = o]
    /\ UNCHANGED <<slots, appointments, balance, transactions, call, loc, calls>>

\* --------------------------------------------------------- process_payment
\* what the store held for appointment `id` when a payment with `otp` was
\* called (history only)
ApptAtStart(id, otp) ==
    IF id \notin DOMAIN appointments THEN "missing"
    ELSE IF appointments[id].status = "pending_payment" THEN "pending"
    ELSE IF \E t \in DOMAIN transactions :
                transactions[t].appt = id /\ transactions[t].otp = otp
         THEN "paid_same_otp"
         ELSE "paid_other_otp"

\* the call process_payment(e, a, id, o) and its otp format check
PayCall(p, e, a, id, o) ==
    /\ pc[p] = "idle"
    /\ calls < MaxCalls
    /\ call' = [call EXCEPT ![p] = [NoCall EXCEPT
                   !.op = "pay", !.email = e, !.amount = a, !.appt = id,
                   !.otp = o]]
    /\ loc' = [loc EXCEPT ![p] = [NoLoc EXCEPT
                   !.apptAtStart = ApptAtStart(id, o),
                   !.balAtStart = IF e \in DOMAIN PatientDocByEmail
                                  THEN balance[PatientDocByEmail[e]] ELSE 0]]
    /\ IF OtpWellFormed(o)
       THEN /\ pc' = [pc EXCEPT ![p] = "p_patient"]
            /\ result' = [result EXCEPT ![p] = NoResult]
       ELSE Finish(p, "InvalidOTP", NoOtp)
    /\ calls' = calls + 1
    /\ UNCHANGED <<slots, appointments, issued, balance, transactions>>

\* process_payment called with a positive amount
StartPay(p) ==
    \E e \in Emails, a \in Amounts, id \in 1..(Len(appointments) + 1), o \in OtpInputs :
        PayCall(p, e, a, id, o)

\* all([patient_email, amount, appointment_id, otp]): a zero amount and an
\* empty otp are falsy
AllPresent(a, o) == a # 0 /\ o # <<>>

\* handle_payment: amount = float(data.get('amount', 0)) of the request body,
\* the required-fields test, then process_payment
HandlePayment(p) ==
    \E e \in Emails, a \in AmountInputs, id \in 1..(Len(appointments) + 1),
       o \in OtpInputs :
        IF AllPresent(a, o)
        THEN PayCall(p, e, a, id, o)
        ELSE /\ pc[p] = "idle"
             /\ calls < MaxCalls
             /\ call' = [call EXCEPT ![p] = [NoCall EXCEPT
                            !.op = "pay", !.email = e, !.amount = a, !.appt = id,
                            !.otp = o]]
             /\ loc' = [loc EXCEPT ![p] = NoLoc]
             /\ Finish(p, "MissingFields", NoOtp)
             /\ calls' = calls + 1
             /\ UNCHANGED <<slots, appointments, issued, balance, transactions>>

\* get_patient_by_email (a failed query is caught and answers None), then
\* the balance check
PPatient(p) ==
    /\ pc[p] = "p_patient"
    /\ \E ok \in BOOLEAN :
          IF ~ok \/ call[p].email \notin DOMAIN PatientDocByEmail
          THEN /\ Finish(p, "PatientNotFound", NoOtp)
               /\ loc' = [loc EXCEPT ![p].fault = ~ok]
          ELSE LET pid == PatientDocByEmail[call[p].email]
                   cb == balance[pid]
               IN  /\ loc' = [loc EXCEPT ![p].patientId = pid,
                                         ![p].current_balance = cb]
                   /\ IF SufficientFunds(cb, call[p].amount)
                      THEN /\ pc' = [pc EXCEPT ![p] = "p_appt"]
                           /\ UNCHANGED result
                      ELSE Finish(p, "InsufficientFunds", NoOtp)
    /\ UNCHANGED <<slots, appointments, issued, balance, transactions, call, calls>>

\* appointment_ref.get().to_dict(), then new_balance
PAppt(p) ==
    /\ pc[p] = "p_appt"
    /\ \E ok \in BOOLEAN :
          IF ~ok
          THEN /\ Finish(p, "PaymentFailed", NoOtp)
               /\ loc' = [loc EXCEPT ![p].fault = TRUE]
          ELSE IF call[p].appt \notin DOMAIN appointments
          THEN /\ Finish(p, "AppointmentNotFound", NoOtp)
               /\ UNCHANGED loc
          ELSE /\ pc' = [pc EXCEPT ![p] = "p_debit"]
               /\ loc' = [loc EXCEPT ![p].new_balance =
                              NewBalance(loc[p].current_balance, call[p].amount)]
               /\ UNCHANGED result
    /\ UNCHANGED <<slots, appointments, issued, balance, transactions, call, calls>>

\* patients.document(patient['id']).update({'balance': new_balance, ...})
PDebit(p) ==
    /\ pc[p] = "p_debit"
    /\ \E ok \in BOOLEAN :
          IF ~ok
          THEN /\ Finish(p, "PaymentFailed", NoOtp)
               /\ loc' = [loc EXCEPT ![p].fault = TRUE]
               /\ UNCHANGED balance
          ELSE /\ balance' = [balance EXCEPT ![loc[p].patientId] = loc[p].new_balance]
               /\ loc' = [loc EXCEPT ![p].wrote = TRUE, ![p].debited = TRUE,
                                     ![p].balBefore = balance[loc[p].patientId]]
               /\ pc' = [pc EXCEPT ![p] = "p_tx"]
               /\ UNCHANGED result
    /\ UNCHANGED <<slots, appointments, issued, transactions, call, calls>>

\* the transaction document process_payment builds
TransactionData(p) ==
    [amount |-> call[p].amount, balanceAfter |-> loc[p].new_balance,
     appt |-> call[p].appt, userId |-> loc[p].patientId, otp |-> call[p].otp]

\* db.collection('transactions').add(transaction_data)
PTx(p) ==
    /\ pc[p] = "p_tx"
    /\ \E ok \in BOOLEAN :
          IF ~ok
          THEN /\ Finish(p, "PaymentFailed", NoOtp)
               /\ loc' = [loc EXCEPT ![p].fault = TRUE]
               /\ UNCHANGED transactions
          ELSE /\ transactions' = Append(transactions, TransactionData(p))
               /\ loc' = [loc EXCEPT ![p].txId = Len(transactions) + 1]
               /\ pc' = [pc EXCEPT ![p] = "p_confirm"]
               /\ UNCHANGED result
    /\ UNCHANGED <<slots, appointments, issued, balance, call, calls>>

\* appointment_ref.update({'isPaid': True, 'status': 'confirmed',
\* 'transactionId': ...}) and the successful return
PConfirm(p) ==
    /\ pc[p] = "p_confirm"
    /\ \E ok \in BOOLEAN :
          IF ~ok
          THEN /\ Finish(p, "PaymentFailed", NoOtp)
               /\ loc' = [loc EXCEPT ![p].fault = TRUE]
               /\ UNCHANGED appointments
          ELSE /\ appointments' = [appointments EXCEPT ![call[p].appt] =
                      [@ EXCEPT !.isPaid = TRUE, !.status = "confirmed",
                                !.transactionId = loc[p].txId]]
               /\ Finish(p, "Success", NoOtp)
               /\ UNCHANGED loc
    /\ UNCHANGED <<slots, issued, balance, transactions, call, calls>>

\* ------------------------------------------------------------ environment
Returned(p, op) == pc[p] = "done" /\ call[p].op = op
Succeeded(p, op) == Returned(p, op) /\ result[p].kind = "Success"

InProgress == {"b_check", "b_doctor", "b_add", "b_query", "b_update", "b_return",
               "p_patient", "p_appt", "p_debit", "p_tx", "p_confirm"}

\* the caller has its answer; the worker takes the next request, if one is
\* still to come
Return(p) ==
    /\ pc[p] = "done"
    /\ calls < MaxCalls
    /\ pc' = [pc EXCEPT ![p] = "idle"]
    /\ call' = [call EXCEPT ![p] = NoCall]
    /\ loc' = [loc EXCEPT ![p] = NoLoc]
    /\ result' = [result EXCEPT ![p] = NoResult]
    /\ UNCHANGED <<slots, appointments, issued, balance, transactions, calls>>

\* handle_ai_appointment after a rolled-back booking: the slot is freed
TextToSpeechFailsRollback(p) ==
    /\ Returned(p, "book")
    /\ result[p].kind # "ServerBusy"
    /\ result' = [result EXCEPT ![p].kind = "ServerBusy"]
    /\ slots' = [k \in DOMAIN slots |-> slots[k] /\ k # call[p].slot]
    /\ UNCHANGED <<appointments, issued, balance, transactions, pc, call, loc, calls>>

\* handle_ai_appointment after book_appointment returned: text_to_speech
\* raises and the request is answered with the 500 "servers are busy" error
TextToSpeechFails(p) ==
    /\ Returned(p, "book")
    /\ result[p].kind # "ServerBusy"
    /\ result' = [result EXCEPT ![p].kind = "ServerBusy"]
    /\ UNCHANGED <<slots, appointments, issued, balance, transactions, pc, call,
                   loc, calls>>

\* the worker dies between two store calls; before its first write its death
\* leaves the store as a handler that was never called
Crash(p) ==
    /\ pc[p] \in InProgress
    /\ loc[p].wrote
    /\ pc' = [pc EXCEPT ![p] = "crashed"]
    /\ UNCHANGED <<slots, appointments, issued, balance, transactions, call, loc,
                   result, calls>>

Next ==
    \E p \in Procs :
        \/ StartBook(p) \/ BCheck(p) \/ BDoctor(p) \/ BAdd(p) \/ BQuery(p)
        \/ BUpdate(p) \/ BReturn(p)
        \/ StartPay(p) \/ PPatient(p) \/ PAppt(p) \/ PDebit(p) \/ PTx(p)
        \/ PConfirm(p)
        \/ Return(p) \/ Crash(p)

Spec == Init /\ [][Next]_vars

\* bookings made by handle_ai_appointment: the intent may be incomplete, and
\* text_to_speech may fail after book_appointment returned
NextIntent ==
    \E p \in Procs :
        \/ StartBookIntent(p) \/ BCheck(p) \/ BDoctor(p) \/ BAdd(p) \/ BQuery(p)
        \/ BUpdate(p) \/ BReturn(p) \/ TextToSpeechFails(p)
        \/ Return(p) \/ Crash(p)

SpecIntent == Init /\ [][NextIntent]_vars

\* payments entering through handle_payment, with any amount of the body
NextHandler ==
    \E p \in Procs :
        \/ HandlePayment(p) \/ PPatient(p) \/ PAppt(p) \/ PDebit(p) \/ PTx(p)
        \/ PConfirm(p)
        \/ Return(p) \/ Crash(p)

SpecHandler == Init /\ [][NextHandler]_vars

\* --------------------------------------------------------------- properties

\* C1: two concurrent book_appointment calls for the same slot identity, both
\* called while the slot was free, its doctor on file and no store call
\* failing: exactly one returns success and the other slot-unavailable.
C1_ExactlyOneBookingWins ==
    \A p, q \in Procs :
        ( /\ p # q
          /\ Returned(p, "book") /\ Returned(q, "book")
          /\ call[p].slot = call[q].slot
          /\ call[p].slot[1] \in DoctorDocs
          /\ loc[p].freeAtStart /\ loc[q].freeAtStart
          /\ ~loc[p].fault /\ ~loc[q].fault )
        => \/ result[p].kind = "Success" /\ result[q].kind = "SlotUnavailable"
           \/ result[q].kind = "Success" /\ result[p].kind = "SlotUnavailable"

\* C2: in every reachable state at most one Appointment document exists for
\* any slot identity.
C2_AtMostOneAppointmentPerSlot ==
    \A i, j \in DOMAIN appointments :
        appointments[i].slot = appointments[j].slot => i = j

\* C3: every patient's stored balance is non-negative in every reachable
\* state, under every interleaving of payments.
C3_BalanceNonNegative == \A pid \in PatientIds : balance[pid] >= 0

\* C3 witness: two payments of the same patient read the same balance, both
\* debited it and both returned success.
C3_Witness ==
    \E p, q \in Procs :
        /\ p # q
        /\ Succeeded(p, "pay") /\ Succeeded(q, "pay")
        /\ loc[p].patientId = loc[q].patientId
        /\ loc[p].current_balance = loc[q].current_balance
        /\ loc[p].debited /\ loc[q].debited

\* a payment call that had a valid otp for its appointment and sufficient
\* funds, and met no store failure
ValidFundedPayment(p) ==
    /\ Returned(p, "pay")
    /\ call[p].appt \in DOMAIN issued
    /\ call[p].otp = issued[call[p].appt]
    /\ loc[p].patientId # ""
    /\ ~(loc[p].current_balance < call[p].amount)
    /\ ~loc[p].fault

\* C4: two concurrent process_payment calls against the same pending_payment
\* appointment, both with a valid otp and sufficient funds: exactly one
\* returns success, the other fails without a debit or a ledger entry.
C4_OneConfirmationPerAppointment ==
    \A p, q \in Procs :
        ( /\ p # q
          /\ ValidFundedPayment(p) /\ ValidFundedPayment(q)
          /\ call[p].appt = call[q].appt
          /\ loc[p].apptAtStart = "pending" /\ loc[q].apptAtStart = "pending" )
        => \/ result[p].kind = "Success" /\ result[q].kind # "Success" /\ ~loc[q].wrote
           \/ result[q].kind = "Success" /\ result[p].kind # "Success" /\ ~loc[p].wrote

\* C5: a process_payment call made after a payment of the same appointment
\* with the same otp has succeeded returns a failure and writes neither a
\* balance nor a ledger entry.
C5_NoReplay ==
    \A p \in Procs :
        (Returned(p, "pay") /\ loc[p].apptAtStart = "paid_same_otp")
        => result[p].kind # "Success" /\ ~loc[p].wrote

\* C6: once a process_payment call has ended, by a return or by a crash, a
\* debit it made has its ledger entry, and a confirmed appointment names a
\* ledger entry.
C6_SettlementAtomic ==
    /\ \A p \in Procs :
          (pc[p] \in {"done", "crashed"} /\ loc[p].debited) => loc[p].txId # 0
    /\ \A i \in DOMAIN appointments :
          appointments[i].status = "confirmed"
          => appointments[i].transactionId \in DOMAIN transactions

\* the step by which worker p returns success from process_payment
PaySuccessStep(p) ==
    pc[p] = "p_confirm" /\ pc'[p] = "done" /\ result'[p].kind = "Success"

\* C7: when process_payment returns success, the ledger entry it added has
\* balanceAfter = the balance stored just before its debit minus amount, the
\* stored balance equals that balanceAfter, and the appointment is confirmed,
\* paid and names that entry.
C7_SuccessfulPaymentRecord ==
    [][\A p \in Procs : PaySuccessStep(p) =>
          /\ loc[p].txId \in DOMAIN transactions'
          /\ transactions'[loc[p].txId].balanceAfter
                = loc[p].balBefore - call[p].amount
          /\ balance'[loc[p].patientId] = transactions'[loc[p].txId].balanceAfter
          /\ appointments'[call[p].appt].status = "confirmed"
          /\ appointments'[call[p].appt].isPaid
          /\ appointments'[call[p].appt].transactionId = loc[p].txId]_vars

\* C8: process_payment returns success only when its otp is the one
\* book_appointment issued for that appointment.
C8_OtpMustMatchIssued ==
    \A p \in Procs :
        Succeeded(p, "pay")
        => call[p].appt \in DOMAIN issued /\ call[p].otp = issued[call[p].appt]

\* C9 as stated: whenever the patient's balance is less than amount,
\* process_payment fails with insufficient funds and writes nothing.
C9_InsufficientFundsAsStated ==
    \A p \in Procs :
        ( /\ Returned(p, "pay")
          /\ call[p].email \in DOMAIN PatientDocByEmail
          /\ loc[p].balAtStart < call[p].amount )
        => result[p].kind = "InsufficientFunds" /\ ~loc[p].wrote

\* C9 amended: when the otp is well-formed and the patient lookup returned the
\* patient with a balance less than amount, process_payment has returned
\* insufficient funds and has written nothing.
C9_InsufficientFunds ==
    \A p \in Procs :
        ( /\ call[p].op = "pay"
          /\ loc[p].patientId # ""
          /\ loc[p].current_balance < call[p].amount )
        => /\ OtpWellFormed(call[p].otp)
           /\ pc[p] = "done"
           /\ result[p].kind = "InsufficientFunds"
           /\ ~loc[p].wrote /\ ~loc[p].debited /\ loc[p].txId = 0

\* C9 witness: a payment of more than the balance it read has returned.
C9_Witness ==
    \E p \in Procs :
        /\ Returned(p, "pay")
        /\ loc[p].patientId # ""
        /\ loc[p].current_balance < call[p].amount
        /\ result[p].kind = "InsufficientFunds"

\* C10: an appointment is created pending_payment, holds no status but
\* pending_payment and confirmed, and once confirmed its status, isPaid and
\* transactionId are never written again.
C10_ConfirmedIsFinal ==
    [][\A i \in DOMAIN appointments :
          /\ appointments[i].status \in {"pending_payment", "confirmed"}
          /\ appointments[i].status = "confirmed"
             => appointments'[i] = appointments[i]]_vars

\* C11: a book_appointment call whose intent lacks a required field, or whose
\* startTime is no HH:MM time (so that endTime is unset), writes nothing to the
\* store and, once returned, has failed.
C11_IncompleteIntentNoWrite ==
    \A p \in Procs :
        (call[p].op = "book" /\ call[p].missing # "none")
        => /\ ~loc[p].wrote /\ loc[p].apptId = 0
           /\ pc[p] \notin {"b_query", "b_update", "b_return", "crashed"}
           /\ pc[p] = "done" => result[p].kind # "Success"

\* C11 witness: an intent without endTime passed the availability check and
\* the doctor lookup for a free slot, and the call returned a failure.
C11_Witness ==
    \E p \in Procs :
        /\ Returned(p, "book")
        /\ call[p].missing = "endTime"
        /\ loc[p].freeAtStart /\ ~loc[p].fault
        /\ call[p].slot[1] \in DoctorDocs
        /\ result[p].kind = "BookingFailed"

\* C12: once a book_appointment call has ended, by a return or by a crash, an
\* Appointment it created has its slot marked booked, and a call that
\* returned a failure has created none.
C12_NoPartialBooking ==
    \A p \in Procs :
        (pc[p] \in {"done", "crashed"} /\ call[p].op = "book" /\ loc[p].apptId # 0)
        => /\ call[p].slot \in DOMAIN slots /\ slots[call[p].slot]
           /\ pc[p] = "done" => result[p].kind = "Success"

\* C13: no step stores a patient balance greater than the one stored before
\* it, for every amount handle_payment accepts.
C13_BalanceNeverIncreases ==
    [][\A pid \in PatientIds : balance'[pid] <= balance[pid]]_vars

\* C14: a process_payment call that returned a failure added no Transaction
\* entry (so that the entries count the successful payments).
C14_FailedPaymentAddsNoEntry ==
    \A p \in Procs :
        (Returned(p, "pay") /\ result[p].kind # "Success") => loc[p].txId = 0

\* C15: no step turns a slot's isBooked from true to false or removes a
\* TimeSlot document, and only book_appointment's update step changes
\* timeSlots.
C15_BookedStaysBooked ==
    [][/\ DOMAIN slots' = DOMAIN slots
       /\ \A k \in DOMAIN slots : slots[k] => slots'[k]
       /\ slots' # slots =>
             \E p \in Procs : call[p].op = "book" /\ pc[p] = "b_update"]_vars

\* C15 witness: two bookings of the same slot both ran their update, the
\* second on a slot already booked, and the slot is booked.
C15_Witness ==
    \E p, q \in Procs :
        /\ p # q
        /\ Succeeded(p, "book") /\ Succeeded(q, "book")
        /\ call[p].slot = call[q].slot
        /\ slots[call[p].slot]

\* C16: the step by which text_to_speech fails after a successful
\* book_appointment leaves slots, appointments, balances and ledger as they
\* were.
C16_SpeechFailureKeepsState ==
    [][\A p \in Procs :
          (Succeeded(p, "book") /\ result'[p].kind = "ServerBusy")
          => UNCHANGED <<slots, appointments, balance, transactions>>]_vars

\* C16 witness: text_to_speech failed after a booking, whose appointment
\* exists and whose slot is booked.
C16_Witness ==
    \E p \in Procs :
        /\ Returned(p, "book")
        /\ result[p].kind = "ServerBusy"
        /\ loc[p].apptId \in DOMAIN appointments
        /\ appointments[loc[p].apptId].slot = call[p].slot
        /\ slots[call[p].slot]

\* C17: a call during which a store read or write raised returns the store
\* failure, not another outcome.
C17_StoreFailureReported ==
    \A p \in Procs :
        (pc[p] = "done" /\ loc[p].fault)
        => result[p].kind \in {"BookingFailed", "PaymentFailed", "ServerBusy"}

\* C18: a successful book_appointment returns the confirmation number made of
\* the booked appointment's date as YYYYMMDD and the first 6 characters of
\* the appointment id.
C18_ConfirmationFromAppointmentDate ==
    \A p \in Procs :
        Succeeded(p, "book")
        => result[p].conf = <<Yyyymmdd(ApptDate), SubSeq(DocId(loc[p].apptId), 1, 6)>>

\* the sum of the amounts of the Transaction entries of patient pid
RECURSIVE Debited(_, _)
Debited(txs, pid) ==
    IF txs = <<>> THEN 0
    ELSE (IF Head(txs).userId = pid THEN Head(txs).amount ELSE 0) + Debited(Tail(txs), pid)

\* C19: ledger conservation: when no process_payment call is in progress, for
\* every patient the initial balance minus the stored balance equals the sum
\* of the amounts of the patient's Transaction entries, also after concurrent
\* payments; stated here for the states where every worker has returned
\* success from process_payment, so that no failed or interrupted call is
\* involved.
C19_LedgerConservation ==
    (\A p \in Procs : Succeeded(p, "pay"))
    => \A pid \in PatientIds :
          InitBalance - balance[pid] = Debited(transactions, pid)

\* C20: whenever an appointment has status confirmed, the Transaction entry
\* named by its transactionId has userId equal to the appointment's patientId
\* and amount equal to the appointment's cost.
C20_ConfirmedByOwnerForFullPrice ==
    \A i \in DOMAIN appointments :
        appointments[i].status = "confirmed"
        => /\ appointments[i].transactionId \in DOMAIN transactions
           /\ transactions[appointments[i].transactionId].userId = appointments[i].patientId
           /\ transactions[appointments[i].transactionId].amount = appointments[i].cost
=============================================================================
